---- MODULE Spec2Model ----
(***************************************************************************)
(* Model of backend/app/main.py of the invoice reader: the upload handler  *)
(* (upload_invoice), the OCR gateway (process_with_deepseek_vision), the   *)
(* field extractor (extract_invoice_data and the find_* functions) and the *)
(* /api-status endpoint.                                                   *)
(*                                                                         *)
(* A Python str is a sequence of one-character strings.  The letter        *)
(* U+0111 of the sentinel is written DStroke.                              *)
(***************************************************************************)
EXTENDS Integers, Sequences, FiniteSets, TLC

VARIABLES DEEPSEEK_API_KEY, pc, content_type, ocr_result, response,
          http_reply, httpCalls, gatewayCalls, extractCalls, escaped,
          status_response, text, extracted

vars == <<DEEPSEEK_API_KEY, pc, content_type, ocr_result, response,
          http_reply, httpCalls, gatewayCalls, extractCalls, escaped,
          status_response, text, extracted>>

(***************************************************************************)
(* Characters and strings                                                  *)
(***************************************************************************)
DStroke == "d-stroke"

UPPER == <<"A", "B", "C", "D", "E", "F", "G", "H", "I", "J", "K", "L", "M", "N", "O", "P", "Q", "R", "S", "T", "U", "V", "W", "X", "Y", "Z">>

LOWER == <<"a", "b", "c", "d", "e", "f", "g", "h", "i", "j", "k", "l", "m", "n", "o", "p", "q", "r", "s", "t", "u", "v", "w", "x", "y", "z">>

Range(s) == {s[i] : i \in DOMAIN s}

UpperLetters == Range(UPPER)

LowerLetters == Range(LOWER)

Digits == {"0", "1", "2", "3", "4", "5", "6", "7", "8", "9"}

\* the characters \s matches and str.strip() removes
Whitespace == {" ", "\t", "\n", "\r", "\f"}

\* str.lower() on one character
LowerChar(c) ==
    IF c \in UpperLetters
    THEN LOWER[CHOOSE i \in DOMAIN UPPER : UPPER[i] = c]
    ELSE c

\* str.lower()
Lower(s) == [i \in DOMAIN s |-> LowerChar(s[i])]

\* s[:n]
Prefix(s, n) == SubSeq(s, 1, IF n < Len(s) THEN n ELSE Len(s))

\* s.startswith(p)
StartsWith(s, p) == Len(p) <= Len(s) /\ SubSeq(s, 1, Len(p)) = p

\* p in s, for strings
Contains(s, p) ==
    \E i \in 1..(Len(s) - Len(p) + 1) : SubSeq(s, i, i + Len(p) - 1) = p

RECURSIVE LStrip(_)
LStrip(s) ==
    IF s # <<>> /\ Head(s) \in Whitespace THEN LStrip(Tail(s)) ELSE s

RECURSIVE RStrip(_)
RStrip(s) ==
    IF s # <<>> /\ s[Len(s)] \in Whitespace
    THEN RStrip(SubSeq(s, 1, Len(s) - 1))
    ELSE s

\* str.strip()
Strip(s) == RStrip(LStrip(s))

\* str.split('\n'): the pieces between the newlines, empty pieces kept
RECURSIVE SplitFrom(_, _, _)
SplitFrom(s, i, cur) ==
    IF i > Len(s) THEN <<cur>>
    ELSE IF s[i] = "\n" THEN <<cur>> \o SplitFrom(s, i + 1, <<>>)
    ELSE SplitFrom(s, i + 1, Append(cur, s[i]))

SplitLines(s) == SplitFrom(s, 1, <<>>)

(***************************************************************************)
(* Regular expressions (module re).  A pattern is a sequence of items: a   *)
(* literal or an ordered alternation of literals (optional or not), a      *)
(* greedy repetition of a character class, or the end anchor $.  Matching  *)
(* backtracks in the order re does: longest repetition first, alternatives *)
(* left to right, the empty alternative of ? last.  A match is the         *)
(* sequence of the positions where each item started, followed by the      *)
(* position after the match; <<>> is no match.                             *)
(***************************************************************************)
Lit(s) == [k |-> "lit", alts |-> <<s>>, opt |-> FALSE]

OptAlt(ss) == [k |-> "lit", alts |-> ss, opt |-> TRUE]

Star(S) == [k |-> "cls", set |-> S, min |-> 0, bounded |-> FALSE, max |-> 0]

Plus(S) == [k |-> "cls", set |-> S, min |-> 1, bounded |-> FALSE, max |-> 0]

Rep(S, m, n) == [k |-> "cls", set |-> S, min |-> m, bounded |-> TRUE, max |-> n]

Opt(S) == Rep(S, 0, 1)

Eos == [k |-> "eos"]

CharEq(c, d, ic) == c = d \/ (ic /\ LowerChar(c) = LowerChar(d))

InClass(c, S, ic) == c \in S \/ (ic /\ \E d \in S : LowerChar(d) = LowerChar(c))

LitAt(s, pos, lit, ic) ==
    /\ pos + Len(lit) - 1 <= Len(s)
    /\ \A i \in 1..Len(lit) : CharEq(s[pos + i - 1], lit[i], ic)

\* the longest run of class characters from pos, capped by the item's max
RECURSIVE Run(_, _, _, _, _)
Run(s, pos, it, n, ic) ==
    IF /\ pos + n <= Len(s)
       /\ (~it.bounded \/ n < it.max)
       /\ InClass(s[pos + n], it.set, ic)
    THEN Run(s, pos, it, n + 1, ic)
    ELSE n

RECURSIVE MatchHere(_, _, _, _, _), TryCls(_, _, _, _, _, _), TryAlt(_, _, _, _, _, _)
MatchHere(items, k, s, pos, ic) ==
    IF k > Len(items) THEN <<pos>>
    ELSE LET it == items[k] IN
         CASE it.k = "cls" -> TryCls(items, k, s, pos, ic, Run(s, pos, it, 0, ic))
           [] it.k = "lit" -> TryAlt(items, k, s, pos, ic, 1)
           [] it.k = "eos" ->
                IF pos = Len(s) + 1 \/ (pos = Len(s) /\ s[pos] = "\n")
                THEN LET r == MatchHere(items, k + 1, s, pos, ic)
                     IN  IF r # <<>> THEN <<pos>> \o r ELSE <<>>
                ELSE <<>>

TryCls(items, k, s, pos, ic, n) ==
    IF n < items[k].min THEN <<>>
    ELSE LET r == MatchHere(items, k + 1, s, pos + n, ic)
         IN  IF r # <<>> THEN <<pos>> \o r
             ELSE TryCls(items, k, s, pos, ic, n - 1)

TryAlt(items, k, s, pos, ic, a) ==
    LET it == items[k] IN
    IF a > Len(it.alts)
    THEN IF it.opt
         THEN LET r == MatchHere(items, k + 1, s, pos, ic)
              IN  IF r # <<>> THEN <<pos>> \o r ELSE <<>>
         ELSE <<>>
    ELSE LET r == IF LitAt(s, pos, it.alts[a], ic)
                  THEN MatchHere(items, k + 1, s, pos + Len(it.alts[a]), ic)
                  ELSE <<>>
         IN  IF r # <<>> THEN <<pos>> \o r
             ELSE TryAlt(items, k, s, pos, ic, a + 1)

\* re.match: a match starting at the first character
ReMatch(items, s, ic) == MatchHere(items, 1, s, 1, ic)

\* re.search: the match with the leftmost start
RECURSIVE SearchFrom(_, _, _, _)
SearchFrom(items, s, ic, start) ==
    IF start > Len(s) + 1 THEN <<>>
    ELSE LET r == MatchHere(items, 1, s, start, ic)
         IN  IF r # <<>> THEN r ELSE SearchFrom(items, s, ic, start + 1)

ReSearch(items, s, ic) == SearchFrom(items, s, ic, 1)

\* match.group(0)
WholeMatch(s, m) == SubSeq(s, m[1], m[Len(m)] - 1)

\* match.group(1) of a pattern whose group runs from item g to the end
GroupFrom(s, m, g) == SubSeq(s, m[g], m[Len(m)] - 1)

(***************************************************************************)
(* The field extractor                                                     *)
(***************************************************************************)
NOT_FOUND == <<"N", "i", "j", "e", " ", "p", "r", "o", "n", "a", DStroke, "e", "n">>

ColonSpace == {":"} \cup Whitespace

DotSpace == {"."} \cup Whitespace

UpperDigitHyphen == UpperLetters \cup Digits \cup {"-"}

DotSlash == {".", "/"}

AmountChars == Digits \cup {".", ","}

Letters == UpperLetters \cup LowerLetters

\* the patterns of find_invoice_number; the group is the last item
InvoiceNumberPatterns ==
    << <<Lit(<<"F", "a", "k", "t", "u", "r", "a">>), Star(ColonSpace), Plus(UpperDigitHyphen)>>,
       <<Lit(<<"I", "n", "v", "o", "i", "c", "e">>), Star(ColonSpace), Plus(UpperDigitHyphen)>>,
       <<Lit(<<"B", "r", "o", "j">>), Star(ColonSpace), Plus(UpperDigitHyphen)>>,
       <<Lit(<<"B", "r">>), Star(DotSpace), Plus(UpperDigitHyphen)>>,
       <<Lit(<<"F", "A", "K", "T", "U", "R", "A">>), Star(Whitespace), Plus(UpperDigitHyphen)>> >>

\* a loop that returns match.group(0) instead of match.group(1)
RECURSIVE FirstGroup_WholeMatch(_, _, _, _)
FirstGroup_WholeMatch(patterns, groups, s, i) ==
    IF i > Len(patterns) THEN NOT_FOUND
    ELSE LET m == ReSearch(patterns[i], s, TRUE)
         IN  IF m # <<>> THEN WholeMatch(s, m)
             ELSE FirstGroup_WholeMatch(patterns, groups, s, i + 1)

\* for pattern in patterns: match = re.search(..., re.IGNORECASE); return match.group(1)
RECURSIVE FirstGroup(_, _, _, _)
FirstGroup(patterns, groups, s, i) ==
    IF i > Len(patterns) THEN NOT_FOUND
    ELSE LET m == ReSearch(patterns[i], s, TRUE)
         IN  IF m # <<>> THEN GroupFrom(s, m, groups[i])
             ELSE FirstGroup(patterns, groups, s, i + 1)

find_invoice_number(s) ==
    FirstGroup(InvoiceNumberPatterns, <<3, 3, 3, 3, 3>>, s, 1)

\* the patterns of find_date
DatePatterns ==
    << <<Rep(Digits, 1, 2), Rep(DotSlash, 1, 1), Rep(Digits, 1, 2), Rep(DotSlash, 1, 1), Rep(Digits, 2, 4)>>,
       <<Rep(Digits, 4, 4), Lit(<<"-">>), Rep(Digits, 2, 2), Lit(<<"-">>), Rep(Digits, 2, 2)>>,
       <<Rep(Digits, 1, 2), Plus(Whitespace), Plus(Letters), Plus(Whitespace), Rep(Digits, 4, 4)>> >>

\* for pattern in date_patterns: matches = re.findall(pattern, text); return matches[0]
RECURSIVE FirstWhole(_, _, _)
FirstWhole(patterns, s, i) ==
    IF i > Len(patterns) THEN NOT_FOUND
    ELSE LET m == ReSearch(patterns[i], s, FALSE)
         IN  IF m # <<>> THEN WholeMatch(s, m)
             ELSE FirstWhole(patterns, s, i + 1)

find_date(s) == FirstWhole(DatePatterns, s, 1)

CurrencyAlt == OptAlt(<< <<"R", "S", "D">>, <<"E", "U", "R">>, <<"U", "S", "D">>, <<"€">>, <<"$">> >>)

AmountTail == <<Plus(AmountChars), Star(Whitespace), CurrencyAlt>>

\* the patterns of find_total_amount; the group is the amount tail
TotalAmountPatterns ==
    << <<Lit(<<"U", "K", "U", "P", "N", "O">>), Star(ColonSpace)>> \o AmountTail,
       <<Lit(<<"T", "O", "T", "A", "L">>), Star(ColonSpace)>> \o AmountTail,
       <<Lit(<<"Z", "a", " ", "u", "p", "l", "a", "t", "u">>), Star(ColonSpace)>> \o AmountTail,
       <<Lit(<<"I", "z", "n", "o", "s">>), Star(ColonSpace)>> \o AmountTail,
       <<Lit(<<"S", "U", "M">>), Opt({"A"}), Star(ColonSpace)>> \o AmountTail >>

find_total_amount(s) ==
    FirstGroup(TotalAmountPatterns, <<3, 3, 3, 3, 4>>, s, 1)

VendorKeywords ==
    { <<"f", "a", "k", "t", "u", "r", "a">>, <<"i", "n", "v", "o", "i", "c", "e">>,
      <<"d", "a", "t", "u", "m">>, <<"d", "a", "t", "e">>,
      <<"u", "k", "u", "p", "n", "o">>, <<"t", "o", "t", "a", "l">> }

\* ^\d+[./]\d+[./]\d+$
VendorDatePattern ==
    <<Plus(Digits), Rep(DotSlash, 1, 1), Plus(Digits), Rep(DotSlash, 1, 1), Plus(Digits), Eos>>

\* ^[0-9.,]+\s*(?:RSD|EUR|USD)?$
VendorAmountPattern ==
    <<Plus(AmountChars), Star(Whitespace),
      OptAlt(<< <<"R", "S", "D">>, <<"E", "U", "R">>, <<"U", "S", "D">> >>), Eos>>

VendorLines == 10

\* the condition of the if in find_vendor_name, on the stripped line
VendorCandidate(line) ==
    /\ line # <<>>
    /\ Len(line) > 3
    /\ ~\E word \in VendorKeywords : Contains(Lower(line), word)
    /\ ReMatch(VendorDatePattern, line, FALSE) = <<>>
    /\ ReMatch(VendorAmountPattern, line, FALSE) = <<>>

RECURSIVE VendorScan(_, _)
VendorScan(lines, i) ==
    IF i > Len(lines) THEN NOT_FOUND
    ELSE IF VendorCandidate(Strip(lines[i])) THEN Strip(lines[i])
    ELSE VendorScan(lines, i + 1)

find_vendor_name(s) == VendorScan(Prefix(SplitLines(s), VendorLines), 1)

\* Python values: None, and a str wrapped so that it compares with None
None == [type |-> "NoneType"]

Str(s) == [type |-> "str", v |-> s]

\* the outcome of a call: a returned value or a raised exception
Return(v) == [raised |-> FALSE, value |-> v]

Raise(exc, msg) == [raised |-> TRUE, exc |-> exc, msg |-> msg]

RAW_TEXT_MAX == 500

Ellipsis == <<".", ".", ".">>

\* extract_invoice_data: re.search raises TypeError on a text that is no str
extract_invoice_data(result) ==
    IF "error" \in DOMAIN result
    THEN Return([invoice_number |-> <<"O", "C", "R", "-", "F", "A", "I", "L", "E", "D">>,
                 date |-> <<"N", "/", "A">>,
                 total_amount |-> <<"N", "/", "A">>,
                 vendor_name |-> <<"N", "/", "A">>,
                 raw_text |-> <<"OCR processing failed">>])
    ELSE LET t == result.text IN
         IF t.type # "str"
         THEN Raise("TypeError", <<"expected string or bytes-like object">>)
         ELSE Return([invoice_number |-> find_invoice_number(t.v),
                      date |-> find_date(t.v),
                      total_amount |-> find_total_amount(t.v),
                      vendor_name |-> find_vendor_name(t.v),
                      raw_text |-> IF Len(t.v) > RAW_TEXT_MAX
                                   THEN Prefix(t.v, RAW_TEXT_MAX) \o Ellipsis
                                   ELSE t.v])

(***************************************************************************)
(* Input texts: up to MaxParts segments joined by newlines, and the        *)
(* scenario text of the specification.                                     *)
(***************************************************************************)
MaxParts == 2

Segments ==
    { <<"F", "a", "k", "t", "u", "r", "a", ":", " ", "I", "N", "V", "-", "2", "0", "2", "4", "-", "0", "0", "1">>,
      <<"F", "a", "k", "t", "u", "r", "a", " ", "b", "r", "o", "j", " ", "1", "2", "3">>,
      <<"B", "r", "o", "j", ":", " ", "5">>,
      <<"I", "n", "v", "o", "i", "c", "e", " ", "7", "7">>,
      <<"B", "r", ".", " ", "A", "-", "9">>,
      <<"B", "r", "z", "o">>,
      <<"1", "5", ".", "0", "1", ".", "2", "0", "2", "4">>,
      <<"2", "0", "2", "4", "-", "0", "1", "-", "1", "5">>,
      <<"1", "5", " ", "J", "a", "n", " ", "2", "0", "2", "4">>,
      <<"1", "/", "2", "/", "2", "4">>,
      <<"1", "2", "3", ".", "4", ".", "5", "6">>,
      <<"U", "K", "U", "P", "N", "O", ":", " ", "1", "5", ".", "0", "0", "0", ",", "0", "0", " ", "R", "S", "D">>,
      <<"I", "z", "n", "o", "s", " ", "9", "9", " ", "€">>,
      <<"S", "U", "M", "A", ":", " ", "3", " ", "u", "s", "d">>,
      <<"1", "0", "0", " ", "€">>,
      <<"1", "2", " ", "$">>,
      <<"2", "5", "0", ",", "0", "0", " ", "R", "S", "D">>,
      <<"A", "c", "m", "e", " ", "C", "o", "m", "p", "a", "n", "y", " ", "D", "O", "O">>,
      <<"T", "o", "t", "a", "l">>,
      <<"A", "B">>,
      <<" ">>,
      <<"\n", "\n", "\n", "\n", "\n", "\n", "\n", "\n", "\n">> }

ScenarioText ==
    <<"F", "a", "k", "t", "u", "r", "a", ":", " ", "I", "N", "V", "-", "2", "0", "2", "4", "-", "0", "0", "1", "\n", "1", "5", ".", "0", "1", ".", "2", "0", "2", "4", "\n", "A", "c", "m", "e", " ", "C", "o", "m", "p", "a", "n", "y", " ", "D", "O", "O", "\n", "U", "K", "U", "P", "N", "O", ":", " ", "1", "5", ".", "0", "0", "0", ",", "0", "0", " ", "R", "S", "D">>

RECURSIVE Joined(_)
Joined(n) ==
    IF n = 0 THEN {<<>>}
    ELSE IF n = 1 THEN Segments
    ELSE {a \o <<"\n">> \o b : a \in Joined(n - 1), b \in Segments}

Texts == UNION {Joined(n) : n \in 0..MaxParts} \cup {ScenarioText}

(***************************************************************************)
(* Python values of the parsed response body, and the operations the       *)
(* gateway applies to them.  The bodies of the model are dicts, lists,     *)
(* None and strings as leaves.  Fixed message texts are written as one     *)
(* element of a string, with letters outside ASCII transliterated.         *)
(***************************************************************************)
Dict(f) == [type |-> "dict", v |-> f]

List(l) == [type |-> "list", v |-> l]

EmptyDict == Dict([k \in {} |-> None])

\* bool(x) of None or a str
Truthy(x) == x.type = "str" /\ x.v # <<>>

\* key in x, for a str key
PyIn(key, x) ==
    CASE x.type = "dict" -> Return(key \in DOMAIN x.v)
      [] x.type = "list" -> Return(FALSE)    \* no list of the model holds a str
      [] x.type = "NoneType" ->
           Raise("TypeError", <<"argument of type 'NoneType' is not iterable">>)

\* len(x)
PyLen(x) ==
    CASE x.type = "dict" -> Return(Cardinality(DOMAIN x.v))
      [] x.type = "list" -> Return(Len(x.v))
      [] x.type = "str" -> Return(Len(x.v))
      [] x.type = "NoneType" ->
           Raise("TypeError", <<"object of type 'NoneType' has no len()">>)

\* x[key], for a str key
PyGetItem(x, key) ==
    CASE x.type = "dict" ->
           IF key \in DOMAIN x.v THEN Return(x.v[key])
           ELSE Raise("KeyError", <<"'", key, "'">>)
      [] x.type = "list" ->
           Raise("TypeError", <<"list indices must be integers or slices, not str">>)
      [] x.type = "str" ->
           Raise("TypeError", <<"string indices must be integers">>)
      [] x.type = "NoneType" ->
           Raise("TypeError", <<"'NoneType' object is not subscriptable">>)

\* x[0]
PyFirst(x) ==
    CASE x.type = "list" ->
           IF Len(x.v) > 0 THEN Return(x.v[1])
           ELSE Raise("IndexError", <<"list index out of range">>)
      [] x.type = "dict" -> Raise("KeyError", <<"0">>)
      [] x.type = "str" ->
           IF Len(x.v) > 0 THEN Return(Str(<<x.v[1]>>))
           ELSE Raise("IndexError", <<"string index out of range">>)
      [] x.type = "NoneType" ->
           Raise("TypeError", <<"'NoneType' object is not subscriptable">>)

(***************************************************************************)
(* process_with_deepseek_vision, in two parts: up to requests.post, and    *)
(* from the reply of requests.post on.                                     *)
(***************************************************************************)
IMAGE_PREFIX == <<"i", "m", "a", "g", "e", "/">>

PDF_TYPE == <<"a", "p", "p", "l", "i", "c", "a", "t", "i", "o", "n", "/", "p", "d", "f">>

\* a gateway that does not look at the credential before the call
GatewayBefore_NoKeyCheck(key, ctype) ==
    IF StartsWith(ctype.v, IMAGE_PREFIX)
    THEN [sent |-> TRUE]
    ELSE [sent |-> FALSE,
          result |-> [error |-> <<"PDF not yet supported - use images for now">>]]

\* lines 77-122: the result returned without an outbound call, or the call
GatewayBefore(key, ctype) ==
    IF ~Truthy(key)
    THEN [sent |-> FALSE, result |-> [error |-> <<"API_KEY_NOT_SET">>]]
    ELSE IF StartsWith(ctype.v, IMAGE_PREFIX)
    THEN [sent |-> TRUE]
    ELSE [sent |-> FALSE,
          result |-> [error |-> <<"PDF not yet supported - use images for now">>]]

\* lines 135-140, inside the try: data["choices"][0]["message"]["content"]
ResponseText(data) ==
    LET has == PyIn("choices", data) IN
    IF has.raised THEN has
    ELSE IF ~has.value THEN Return([error |-> <<"No text content in response">>])
    ELSE LET choices == PyGetItem(data, "choices").value
             n == PyLen(choices)
         IN  IF n.raised THEN n
             ELSE IF ~(n.value > 0)
             THEN Return([error |-> <<"No text content in response">>])
             ELSE LET first == PyFirst(choices) IN
                  IF first.raised THEN first
                  ELSE LET message == PyGetItem(first.value, "message") IN
                       IF message.raised THEN message
                       ELSE LET content == PyGetItem(message.value, "content") IN
                            IF content.raised THEN content
                            ELSE Return([text |-> content.value])

\* lines 124-148: the try around requests.post and its except Exception
GatewayAfter(reply) ==
    LET body == IF reply.kind = "exception" THEN Raise(reply.exc, reply.msg)
                ELSE IF reply.status_code = 200
                THEN IF reply.json.raised THEN reply.json
                     ELSE ResponseText(reply.json.value)
                ELSE Return([error |-> <<"API error ", ToString(reply.status_code), ": ">>
                                       \o reply.text])
    IN  IF body.raised THEN [error |-> <<"Connection error: ">> \o body.msg]
        ELSE body.value

(***************************************************************************)
(* upload_invoice                                                          *)
(***************************************************************************)
TEST_DATA ==
    [invoice_number |-> <<"T", "E", "S", "T", "-", "0", "0", "1">>,
     date |-> <<"2", "0", "2", "4", "-", "0", "1", "-", "1", "5">>,
     total_amount |-> <<"1", "5", ".", "0", "0", "0", ",", "0", "0", " ", "R", "S", "D">>,
     vendor_name |-> <<"T", "e", "s", "t", " ", "C", "o", "m", "p", "a", "n", "y", " ", "D", "O", "O">>,
     raw_text |-> <<"OCR not available - using test data">>]

FALLBACK_DATA ==
    [invoice_number |-> <<"F", "A", "L", "L", "B", "A", "C", "K", "-", "0", "0", "1">>,
     date |-> <<"2", "0", "2", "4", "-", "0", "1", "-", "0", "1">>,
     total_amount |-> <<"1", "0", ".", "0", "0", "0", ",", "0", "0", " ", "R", "S", "D">>,
     vendor_name |-> <<"F", "a", "l", "l", "b", "a", "c", "k", " ", "C", "o", "m", "p", "a", "n", "y">>,
     raw_text |-> <<"Error occurred - fallback data">>]

DEBUG_TEXT_MAX == 200

\* line 29: the check of the content type, which raises on a rejection
CheckContentType(ctype) ==
    IF ctype.type # "str"
    THEN Raise("AttributeError", <<"'NoneType' object has no attribute 'startswith'">>)
    ELSE IF ~(StartsWith(ctype.v, IMAGE_PREFIX) \/ StartsWith(ctype.v, PDF_TYPE))
    THEN Raise("HTTPException", <<"400: Fajl mora biti slika (JPEG, PNG) ili PDF">>)
    ELSE Return(TRUE)

\* a response to an error signal that drops the error of the gateway
OcrFailedResponse_NoDetail(result) ==
    [status |-> "ocr_failed",
     message |-> <<"OCR greska">>,
     extracted_data |-> TEST_DATA]

\* lines 39-50: the response to an error signal of the gateway
OcrFailedResponse(result) ==
    [status |-> "ocr_failed",
     message |-> <<"OCR greska: ">> \o result.error,
     extracted_data |-> TEST_DATA]

\* lines 39-60: from the result of the gateway to the response; the second
\* component counts the runs of extract_invoice_data
Assemble(result, filename) ==
    IF "error" \in DOMAIN result
    THEN <<Return(OcrFailedResponse(result)), 0>>
    ELSE LET data == extract_invoice_data(result) IN
         IF data.raised THEN <<data, 1>>
         ELSE <<Return([status |-> "success",
                        filename |-> filename,
                        extracted_data |-> data.value,
                        ocr_raw_text |-> Prefix(result.text.v, DEBUG_TEXT_MAX) \o Ellipsis]),
                1>>

\* an except clause that lets the HTTPException of the rejection through
Catches_ReraiseHttp(exc) == exc # "HTTPException"

\* line 62: except Exception catches every exception raised in the try
Catches(exc) == TRUE

\* lines 63-73: the response of the except clause
FallbackResponse(msg) ==
    [status |-> "error_fallback",
     message |-> <<"Greska: ">> \o msg,
     extracted_data |-> FALLBACK_DATA]

\* lines 28 and 62-73: the try of upload_invoice around an outcome
TryExcept(outcome) ==
    IF outcome.raised /\ Catches(outcome.exc)
    THEN Return(FallbackResponse(outcome.msg))
    ELSE outcome

\* what the client gets: the returned response, or nothing of the handler
\* when an exception escapes it
Responded(outcome) == IF outcome.raised THEN None ELSE outcome.value

(***************************************************************************)
(* api_status                                                              *)
(***************************************************************************)
PREVIEW_LEN == 8

api_status(key) ==
    [deepseek_api_key_set |-> Truthy(key),
     api_key_preview |-> IF Truthy(key)
                         THEN Prefix(key.v, PREVIEW_LEN) \o Ellipsis
                         ELSE <<"N", "o", "t", " ", "s", "e", "t">>,
     api_url |-> <<"https://api.deepseek.com/chat/completions">>,
     status |-> <<"ready">>]

(***************************************************************************)
(* The inputs of the model                                                 *)
(***************************************************************************)
MaxKeyLen == 10

\* a credential of n characters
Secret(n) == [i \in 1..n |-> ToString(i % 10)]

\* os.getenv: None, or the value of the variable, which may be empty
Credentials == {None} \cup {Str(Secret(n)) : n \in 0..MaxKeyLen}

ContentTypes ==
    { None,
      Str(<<"t", "e", "x", "t", "/", "p", "l", "a", "i", "n">>),
      Str(<<"i", "m", "a", "g", "e", "/", "p", "n", "g">>),
      Str(<<"i", "m", "a", "g", "e", "/", "j", "p", "e", "g">>),
      Str(PDF_TYPE),
      Str(PDF_TYPE \o <<";", " ", "v", "=", "1">>) }

Filenames == {<<"invoice.png">>}

\* the texts a well-formed reply may carry
GatewayTexts ==
    Joined(0) \cup Joined(1) \cup {ScenarioText, <<" ", "\n", "\t">>}

Choice(content) ==
    Dict("choices" :> List(<<Dict("message" :> Dict("content" :> content))>>))

\* the parsed bodies of a 200 reply
Bodies ==
    { EmptyDict,
      None,
      List(<<>>),
      Dict("choices" :> List(<<>>)),
      Dict("choices" :> None),
      Dict("choices" :> List(<<EmptyDict>>)),
      Dict("choices" :> List(<<Dict("message" :> EmptyDict)>>)),
      Choice(None),
      Choice(List(<<>>)) }
    \cup {Choice(Str(t)) : t \in GatewayTexts}

NoJson == Raise("JSONDecodeError", <<"Expecting value: line 1 column 1 (char 0)">>)

\* what requests.post does: it raises, or returns a response
HttpReplies ==
    { [kind |-> "exception", exc |-> "ConnectionError", msg |-> <<"Connection refused">>],
      [kind |-> "exception", exc |-> "Timeout", msg |-> <<"Read timed out">>] }
    \cup { [kind |-> "response", status_code |-> c, text |-> <<"upstream failure">>,
            json |-> NoJson] : c \in {401, 500} }
    \cup { [kind |-> "response", status_code |-> 200, text |-> <<"<html>">>,
            json |-> NoJson] }
    \cup { [kind |-> "response", status_code |-> 200, text |-> <<"json">>,
            json |-> Return(b)] : b \in Bodies }

(***************************************************************************)
(* The service: the credential is read once, then requests are handled     *)
(* one after the other.                                                    *)
(***************************************************************************)
Init ==
    /\ DEEPSEEK_API_KEY \in Credentials
    /\ pc = "idle"
    /\ content_type = None
    /\ ocr_result = None
    /\ response = None
    /\ http_reply = None
    /\ httpCalls = 0
    /\ gatewayCalls = 0
    /\ extractCalls = 0
    /\ escaped = FALSE
    /\ status_response = None
    /\ text = <<>>
    /\ extracted = None

\* the end of the handler on the outcome of its try body
Finish(outcome, runs) ==
    LET final == TryExcept(outcome) IN
    /\ pc' = "done"
    /\ response' = Responded(final)
    /\ escaped' = final.raised
    /\ extractCalls' = runs

\* POST /upload-invoice up to the outbound call, or to the response when
\* no outbound call is made
UploadInvoice(ctype, filename) ==
    /\ pc \in {"idle", "done"}
    /\ content_type' = ctype
    /\ http_reply' = None
    /\ LET check == CheckContentType(ctype) IN
       IF check.raised
       THEN /\ Finish(check, 0)
            /\ ocr_result' = None
            /\ gatewayCalls' = 0
            /\ httpCalls' = 0
       ELSE LET before == GatewayBefore(DEEPSEEK_API_KEY, ctype) IN
            /\ gatewayCalls' = 1
            /\ IF before.sent
               THEN /\ pc' = "awaiting"
                    /\ httpCalls' = 1
                    /\ ocr_result' = None
                    /\ response' = None
                    /\ escaped' = FALSE
                    /\ extractCalls' = 0
               ELSE LET a == Assemble(before.result, filename) IN
                    /\ httpCalls' = 0
                    /\ ocr_result' = before.result
                    /\ Finish(a[1], a[2])
    /\ UNCHANGED <<DEEPSEEK_API_KEY, status_response, text, extracted>>

\* requests.post returns or raises, and the handler runs to its response
GatewayReply(reply, filename) ==
    /\ pc = "awaiting"
    /\ http_reply' = reply
    /\ LET result == GatewayAfter(reply)
           a == Assemble(result, filename)
       IN  /\ ocr_result' = result
           /\ Finish(a[1], a[2])
    /\ UNCHANGED <<DEEPSEEK_API_KEY, content_type, httpCalls, gatewayCalls,
                   status_response, text, extracted>>

\* GET /api-status
ApiStatus ==
    /\ status_response' = api_status(DEEPSEEK_API_KEY)
    /\ UNCHANGED <<DEEPSEEK_API_KEY, pc, content_type, ocr_result, response,
                   http_reply, httpCalls, gatewayCalls, extractCalls, escaped,
                   text, extracted>>

Next ==
    \/ \E ctype \in ContentTypes, f \in Filenames : UploadInvoice(ctype, f)
    \/ \E reply \in HttpReplies, f \in Filenames : GatewayReply(reply, f)
    \/ ApiStatus

Spec == Init /\ [][Next]_vars

(***************************************************************************)
(* The extractor on its own: a text is drawn and extract_invoice_data is   *)
(* applied to it.                                                          *)
(***************************************************************************)
InitExtract ==
    /\ DEEPSEEK_API_KEY = None
    /\ pc = "idle"
    /\ content_type = None
    /\ ocr_result = None
    /\ response = None
    /\ http_reply = None
    /\ httpCalls = 0
    /\ gatewayCalls = 0
    /\ extractCalls = 0
    /\ escaped = FALSE
    /\ status_response = None
    /\ text \in Texts
    /\ extracted = None

ExtractInvoiceData ==
    /\ extracted = None
    /\ extracted' = extract_invoice_data([text |-> Str(text)]).value
    /\ UNCHANGED <<DEEPSEEK_API_KEY, pc, content_type, ocr_result, response,
                   http_reply, httpCalls, gatewayCalls, extractCalls, escaped,
                   status_response, text>>

NextExtract == ExtractInvoiceData

SpecExtract == InitExtract /\ [][NextExtract]_vars

(***************************************************************************)
(* Properties                                                              *)
(***************************************************************************)
Done == pc = "done"

IsImage(ctype) == ctype.type = "str" /\ StartsWith(ctype.v, IMAGE_PREFIX)

\* the canned records as the specification gives them
CannedTestRecord ==
    [invoice_number |-> <<"T", "E", "S", "T", "-", "0", "0", "1">>,
     date |-> <<"2", "0", "2", "4", "-", "0", "1", "-", "1", "5">>,
     total_amount |-> <<"1", "5", ".", "0", "0", "0", ",", "0", "0", " ", "R", "S", "D">>,
     vendor_name |-> <<"T", "e", "s", "t", " ", "C", "o", "m", "p", "a", "n", "y", " ", "D", "O", "O">>,
     raw_text |-> <<"OCR not available - using test data">>]

CannedFallbackRecord ==
    [invoice_number |-> <<"F", "A", "L", "L", "B", "A", "C", "K", "-", "0", "0", "1">>,
     date |-> <<"2", "0", "2", "4", "-", "0", "1", "-", "0", "1">>,
     total_amount |-> <<"1", "0", ".", "0", "0", "0", ",", "0", "0", " ", "R", "S", "D">>,
     vendor_name |-> <<"F", "a", "l", "l", "b", "a", "c", "k", " ", "C", "o", "m", "p", "a", "n", "y">>,
     raw_text |-> <<"Error occurred - fallback data">>]

RecordFields == {"invoice_number", "date", "total_amount", "vendor_name", "raw_text"}

GatewayFailed == "error" \in DOMAIN ocr_result

GatewayText == "text" \in DOMAIN ocr_result /\ ocr_result.text.type = "str"

\* C1: a request whose content type neither starts with image/ nor equals
\* application/pdf is rejected before any call of the gateway, with status
\* error and without a canned record in the response.
C1_UnsupportedTypeRejected ==
    (/\ Done
     /\ content_type.type = "str"
     /\ ~StartsWith(content_type.v, IMAGE_PREFIX)
     /\ content_type.v # PDF_TYPE)
    => /\ gatewayCalls = 0
       /\ httpCalls = 0
       /\ response # None
       /\ response.status = "error"
       /\ "extracted_data" \notin DOMAIN response

\* C2: when the gateway returns a text that is empty or only whitespace,
\* the response carries the canned test record, is not a success, and the
\* handler does not crash.
C2_BlankTextGivesTestRecord ==
    (Done /\ GatewayText /\ Strip(ocr_result.text.v) = <<>>)
    => /\ ~escaped
       /\ response # None
       /\ response.status # "success"
       /\ response.extracted_data = CannedTestRecord

\* C3: when the gateway returns an error signal e for an accepted request,
\* the response has status ocr_failed, exactly the canned test record, a
\* message that contains e, and extract_invoice_data was not run.
C3_ErrorSignalGivesOcrFailed ==
    (Done /\ GatewayFailed)
    => /\ response # None
       /\ response.status = "ocr_failed"
       /\ response.extracted_data = CannedTestRecord
       /\ Contains(response.message, ocr_result.error)
       /\ extractCalls = 0

C3_Witness ==
    /\ Done
    /\ GatewayFailed
    /\ http_reply # None
    /\ http_reply.kind = "response"
    /\ http_reply.status_code = 500
    /\ response.status = "ocr_failed"
    /\ StartsWith(ocr_result.error, <<"API error ", "500">>)

\* C4: only a missing credential, a non-success HTTP status or a connection
\* failure gives ocr_failed; a 200 reply whose body cannot be parsed or has
\* an unexpected shape gives error_fallback with the canned fallback record.
C4_FailuresClassifiedByKind ==
    (Done /\ response # None)
    => /\ response.status = "ocr_failed"
          => \/ ~Truthy(DEEPSEEK_API_KEY)
             \/ (http_reply # None /\ http_reply.kind = "exception")
             \/ (http_reply # None /\ http_reply.kind = "response"
                 /\ http_reply.status_code # 200)
       /\ (/\ http_reply # None
           /\ http_reply.kind = "response"
           /\ http_reply.status_code = 200
           /\ ~GatewayText)
          => /\ response.status = "error_fallback"
             /\ response.extracted_data = CannedFallbackRecord

\* C5: no exception escapes upload_invoice; every request ends in one
\* response whose status is success, ocr_failed or error_fallback and whose
\* extracted_data has the five fields; success only with a text of the
\* gateway and the record extract_invoice_data makes of it.
C5_AlwaysWellFormedOutcome ==
    /\ ~escaped
    /\ Done
       => /\ response # None
          /\ response.status \in {"success", "ocr_failed", "error_fallback"}
          /\ DOMAIN response.extracted_data = RecordFields
          /\ response.status = "success"
             => /\ GatewayText
                /\ extractCalls = 1
                /\ response.extracted_data.invoice_number = find_invoice_number(ocr_result.text.v)
                /\ response.extracted_data.date = find_date(ocr_result.text.v)
                /\ response.extracted_data.total_amount = find_total_amount(ocr_result.text.v)
                /\ response.extracted_data.vendor_name = find_vendor_name(ocr_result.text.v)

\* a request without a content type, and one that is rejected, end in the
\* fallback outcome
C5_Witness ==
    /\ Done
    /\ content_type = None
    /\ response # None
    /\ response.status = "error_fallback"
    /\ response.extracted_data = CannedFallbackRecord

\* C6: the outbound call is made at most once per request, a failed call
\* ends the request with a response, and no call is made when the
\* credential is absent (the gateway returns an error instead) or when the
\* content type does not start with image/.
C6_AtMostOneOutboundCall ==
    /\ httpCalls <= 1
    /\ ~Truthy(DEEPSEEK_API_KEY) => httpCalls = 0
    /\ (pc # "idle" /\ ~IsImage(content_type)) => httpCalls = 0
    /\ (Done /\ gatewayCalls = 1 /\ ~Truthy(DEEPSEEK_API_KEY))
       => ocr_result = [error |-> <<"API_KEY_NOT_SET">>]
    /\ (Done /\ gatewayCalls = 1 /\ ~IsImage(content_type)) => GatewayFailed
    /\ (Done /\ http_reply # None) => (httpCalls = 1 /\ response # None)

C6_Witness ==
    /\ Done
    /\ IsImage(content_type)
    /\ ~Truthy(DEEPSEEK_API_KEY)
    /\ gatewayCalls = 1
    /\ httpCalls = 0
    /\ response.status = "ocr_failed"

\* a line that is nothing but a date the extractor recognises
PureDate(line) ==
    \/ ReMatch(DatePatterns[1] \o <<Eos>>, line, FALSE) # <<>>
    \/ ReMatch(DatePatterns[2] \o <<Eos>>, line, FALSE) # <<>>

\* a line that is nothing but an amount with an optional currency marker
PureAmount(line) == ReMatch(AmountTail \o <<Eos>>, line, FALSE) # <<>>

\* C7: find_vendor_name never returns a line that is purely a date (dot or
\* slash form, or ISO) or purely an amount with an optional currency marker
\* among RSD, EUR, USD, the euro sign and the dollar sign.
C7_VendorNeverDateOrAmount ==
    extracted # None
    => /\ ~PureDate(extracted.vendor_name)
       /\ ~PureAmount(extracted.vendor_name)

\* the patterns of a list that match somewhere in s
Matching(patterns, s, ic) ==
    {i \in DOMAIN patterns : ReSearch(patterns[i], s, ic) # <<>>}

Least(S) == CHOOSE i \in S : \A j \in S : i <= j

\* the value a field has by pattern priority: from the first pattern of the
\* list that matches, the text from item g of its leftmost match on
ByPriority(patterns, groups, s, ic) ==
    LET M == Matching(patterns, s, ic) IN
    IF M = {} THEN NOT_FOUND
    ELSE LET m == ReSearch(patterns[Least(M)], s, ic)
         IN  SubSeq(s, m[groups[Least(M)]], m[Len(m)] - 1)

FieldsByPriority(datePatterns) ==
    extracted # None
    => /\ extracted.invoice_number =
             ByPriority(InvoiceNumberPatterns, <<3, 3, 3, 3, 3>>, text, TRUE)
       /\ extracted.total_amount =
             ByPriority(TotalAmountPatterns, <<3, 3, 3, 3, 4>>, text, TRUE)
       /\ extracted.date =
             ByPriority(datePatterns, [i \in DOMAIN datePatterns |-> 1], text, FALSE)

\* C8 as stated: each field is decided by pattern priority, the group is
\* returned for invoice_number and total_amount and the whole match for
\* date, and a text with neither a dot/slash date nor an ISO date has the
\* sentinel as its date.
C8_PriorityWithTwoDateForms == FieldsByPriority(SubSeq(DatePatterns, 1, 2))

\* C8 amended: the same, with the three date forms of find_date: dot/slash,
\* ISO, and day, month name, year; a text with none of the three has the
\* sentinel as its date.
C8_PriorityWithThreeDateForms == FieldsByPriority(DatePatterns)

\* the ISO date comes first in the text and the later dot date is returned
C8_Witness ==
    /\ extracted # None
    /\ LET dot == ReSearch(DatePatterns[1], text, FALSE)
           iso == ReSearch(DatePatterns[2], text, FALSE)
       IN  /\ dot # <<>>
           /\ iso # <<>>
           /\ iso[1] < dot[1]
           /\ extracted.date = WholeMatch(text, dot)

\* C9: find_invoice_number returns the sentinel or a non-empty run of
\* uppercase letters, digits and hyphens; never lowercase text.
C9_InvoiceNumberIsUpperRun ==
    extracted # None
    => \/ extracted.invoice_number = NOT_FOUND
       \/ /\ extracted.invoice_number # <<>>
          /\ \A i \in DOMAIN extracted.invoice_number :
                extracted.invoice_number[i] \in UpperDigitHyphen

\* C10: the preview of a credential is at most its first 8 characters
\* followed by "...", and never contains the whole credential; without a
\* credential the endpoint reports false and "Not set".
C10_PreviewNeverWholeSecret ==
    status_response # None
    => IF DEEPSEEK_API_KEY.type = "str" /\ Len(DEEPSEEK_API_KEY.v) > 0
       THEN /\ status_response.deepseek_api_key_set
            /\ status_response.api_key_preview =
                  Prefix(DEEPSEEK_API_KEY.v, 8) \o <<".", ".", ".">>
            /\ ~Contains(status_response.api_key_preview, DEEPSEEK_API_KEY.v)
       ELSE /\ ~status_response.deepseek_api_key_set
            /\ status_response.api_key_preview = <<"N", "o", "t", " ", "s", "e", "t">>

====
